---------------------------- MODULE Spec2Model ----------------------------
(***************************************************************************)
(* Model of the task-suggestion engine of balkanyilajos/task-management.   *)
(*                                                                         *)
(*   src/src/suggestion.py  suggest_similar_tasks, _suggest_similar_texts, *)
(*                          _searching_for_sequences                       *)
(*   src/src/server.py      compute_similarity,                            *)
(*                          generate_title_description_suggestions         *)
(*                                                                         *)
(* Texts are sequences of tokens; " " is the separator the code inserts.   *)
(* Python's None is the sentinel None, pandas' NaN the sentinel NaN; an    *)
(* optional value (Task | None) is a sequence of length 0 or 1.            *)
(*                                                                         *)
(* Library behaviour the model relies on:                                  *)
(*  - pandas.crosstab(..., dropna=False) keeps the NaN successor of the    *)
(*    last row as a column of its own, sorted after every text (this is    *)
(*    what the code's pd.isna test on the predicted label is there for);   *)
(*  - Series.idxmax returns the first label holding the maximum;           *)
(*  - TfidfVectorizer/cosine_similarity are the environment: the scores    *)
(*    are any values on the scale 0..MaxScore (score/MaxScore in [0,1]),   *)
(*    equal texts get equal scores, and a text's similarity with itself    *)
(*    is 1;                                                                *)
(*  - numpy.argsort's default sort is not stable: equal scores may come    *)
(*    out in any order.                                                    *)
(***************************************************************************)
EXTENDS Integers, Sequences, FiniteSets, TLC

\* ------------------------------------------------------------------ bounds
MaxTasks == 4
MaxTopN == 2
MaxScore == 1

\* ------------------------------------------------------------- data model
None == <<"None">>
NaN == <<"NaN">>
SP == " "

\* Optional values: Python's `x is None` / a present value.
Nothing == <<>>
Some(x) == <<x>>

\* models.Task as the engine sees it: title, description, due_date.
Task(title, description, due_date) ==
    [title |-> title, description |-> description, due_date |-> due_date]

\* The task rows the caller can supply. The first two differ as rows but
\* share one combined text ("a "); the others carry texts of their own.
TaskPool ==
    { Task(<<"a">>, None, 1),
      Task(<<"a">>, <<>>, 2),
      Task(<<"b">>, None, 1),
      Task(<<"a">>, <<"b">>, 3) }

\* Targets: no target, a target with text "a", a target whose text is empty.
TargetPool ==
    { Nothing,
      Some(Task(<<"a">>, None, None)),
      Some(Task(<<>>, None, None)) }

BaseColumns == <<"title", "description", "due_date">>

\* A DataFrame: its ordered column labels and its rows.
DataFrame(rows) == [columns |-> BaseColumns, rows |-> rows]

Corpora == UNION { [1..n -> TaskPool] : n \in 0..MaxTasks }

\* ------------------------------------------------------------ text helpers
Range(s) == { s[i] : i \in DOMAIN s }

\* Series.fillna(""): a missing description becomes the empty string.
fillna(description) == IF description = None THEN <<>> ELSE description

\* tasks_df.title + " " + tasks_df.description.fillna("")
combined_text(row) == row.title \o <<SP>> \o fillna(row.description)

\* Series.shift(-1): each row gets its successor's value, the last row NaN.
shift(texts) ==
    [i \in DOMAIN texts |-> IF i < Len(texts) THEN texts[i + 1] ELSE NaN]

\* Code-point order of the tokens, as Python compares strings.
TokenOrder == <<SP, "a", "b">>
TokenRank(c) == CHOOSE k \in DOMAIN TokenOrder : TokenOrder[k] = c

RECURSIVE LexLess(_, _)
LexLess(s, t) ==
    IF t = <<>> THEN FALSE
    ELSE IF s = <<>> THEN TRUE
    ELSE IF Head(s) = Head(t) THEN LexLess(Tail(s), Tail(t))
    ELSE TokenRank(Head(s)) < TokenRank(Head(t))

\* Label order of a crosstab axis: texts ascending, NaN after all of them.
LabelLess(x, y) ==
    IF x = NaN THEN FALSE
    ELSE IF y = NaN THEN TRUE
    ELSE LexLess(x, y)

RECURSIVE SortedLabels(_)
SortedLabels(S) ==
    IF S = {} THEN <<>>
    ELSE LET m == CHOOSE x \in S : \A y \in S \ {x} : LabelLess(x, y)
         IN <<m>> \o SortedLabels(S \ {m})


\* ------------------------------------------------- suggestion.py, lines 37-38
AddColumn(columns, c) ==
    IF c \in Range(columns) THEN columns ELSE Append(columns, c)

\* tasks_df["combined_text"] = ...; tasks_df['next_combined_text'] = ...
\* Both assignments write into the frame the caller passed.
WithDerivedColumns(df) ==
    LET texts == [i \in DOMAIN df.rows |-> combined_text(df.rows[i])]
        nexts == shift(texts)
    IN [columns |-> AddColumn(AddColumn(df.columns, "combined_text"),
                              "next_combined_text"),
        rows |-> [i \in DOMAIN df.rows |->
                    ("combined_text" :> texts[i]) @@
                    ("next_combined_text" :> nexts[i]) @@
                    df.rows[i]]]

Column(df, c) == [i \in DOMAIN df.rows |-> df.rows[i][c]]

\* ------------------------------------------------------- call outcomes
Returned(v) == [kind |-> "returned", exception |-> "", value |-> v]
Raised(e) == [kind |-> "raised", exception |-> e, value |-> <<>>]

\* ------------------------------------------- _searching_for_sequences
\* pd.crosstab(index, columns, dropna=False): one row per distinct index
\* value, one column per distinct column value (NaN included), each cell the
\* number of rows of the frame with that pair.
crosstab(index, columns) ==
    [x \in Range(index) |->
        [y \in Range(columns) |->
            Cardinality({ i \in DOMAIN index : index[i] = x /\ columns[i] = y })]]

RECURSIVE SumOver(_, _)
SumOver(f, S) ==
    IF S = {} THEN 0
    ELSE LET y == CHOOSE y \in S : TRUE IN f[y] + SumOver(f, S \ {y})

\* transitions.sum(axis=1): the row totals, NaN column included.
RowSum(transitions, x) == SumOver(transitions[x], DOMAIN transitions[x])

\* transitions.div(transitions.sum(axis=1), axis=0).fillna(0): each cell as
\* the fraction <<count, row total>>. Every row of the crosstab holds at
\* least one observation, so no total is 0 and fillna changes nothing.
transition_probabilities(transitions) ==
    [x \in DOMAIN transitions |->
        [y \in DOMAIN transitions[x] |-> <<transitions[x][y], RowSum(transitions, x)>>]]

\* p >= q on fractions <<numerator, denominator>> with positive denominators.
FracGeq(p, q) == p[1] * q[2] >= q[1] * p[2]

\* probabilities.max()
SeriesMax(probabilities) ==
    CHOOSE p \in Range(probabilities) :
        \A q \in Range(probabilities) : FracGeq(p, q)

\* probabilities.idxmax(): the first label, in axis order, holding the maximum.
idxmax(probabilities) ==
    LET labels == SortedLabels(DOMAIN probabilities)
        k == CHOOSE k \in DOMAIN labels :
                /\ \A q \in Range(probabilities) : FracGeq(probabilities[labels[k]], q)
                /\ \A j \in 1..(k - 1) :
                      ~ FracGeq(probabilities[labels[j]], probabilities[labels[k]])
    IN labels[k]

\* predicted_probability > 0.5
MoreThanHalf(p) == 2 * p[1] > p[2]

\* predicted_probability >= 0.5
AtLeastHalf(p) == 2 * p[1] >= p[2]

\* tasks_df[tasks_df.combined_text == text].iloc[-1]
LastRowWith(df, text) ==
    LET i == CHOOSE i \in DOMAIN df.rows :
                /\ df.rows[i].combined_text = text
                /\ \A j \in (i + 1)..Len(df.rows) : df.rows[j].combined_text # text
    IN df.rows[i]

\* tasks_df[tasks_df.combined_text == text].iloc[0]
FirstRowWith(df, text) ==
    LET i == CHOOSE i \in DOMAIN df.rows :
                /\ df.rows[i].combined_text = text
                /\ \A j \in 1..(i - 1) : df.rows[j].combined_text # text
    IN df.rows[i]

NoProbabilities == [y \in {} |-> <<0, 1>>]

_searching_for_sequences_accept_nan(df) ==
    IF df.rows = <<>>
    THEN [out |-> Raised("IndexError"), probabilities |-> NoProbabilities]
    ELSE
        LET transitions == crosstab(Column(df, "combined_text"),
                                    Column(df, "next_combined_text"))
            last_event == df.rows[Len(df.rows)].combined_text
            probabilities == transition_probabilities(transitions)[last_event]
            predicted_combined_text == idxmax(probabilities)
            predicted_probability == SeriesMax(probabilities)
        IN IF AtLeastHalf(predicted_probability)
           THEN LET hits == { i \in DOMAIN df.rows :
                                df.rows[i].combined_text = predicted_combined_text }
                IN IF hits = {}
                   THEN [out |-> Raised("IndexError"), probabilities |-> probabilities]
                   ELSE LET row == FirstRowWith(df, predicted_combined_text)
                        IN [out |-> Returned(Some(Task(row.title, row.description,
                                                       row.due_date))),
                            probabilities |-> probabilities]
           ELSE [out |-> Returned(Nothing), probabilities |-> probabilities]

\* Lines 125-136. tasks_df.combined_text.iloc[-1] raises IndexError on a frame
\* without rows; a function that falls off its end returns None.
_searching_for_sequences(df) ==
    IF df.rows = <<>>
    THEN [out |-> Raised("IndexError"), probabilities |-> NoProbabilities]
    ELSE
        LET transitions == crosstab(Column(df, "combined_text"),
                                    Column(df, "next_combined_text"))
            last_event == df.rows[Len(df.rows)].combined_text
            probabilities == transition_probabilities(transitions)[last_event]
            predicted_combined_text == idxmax(probabilities)
            predicted_probability == SeriesMax(probabilities)
        IN IF AtLeastHalf(predicted_probability) /\ predicted_combined_text # NaN
           THEN LET row == FirstRowWith(df, predicted_combined_text)
                IN [out |-> Returned(Some(Task(row.title, row.description,
                                               row.due_date))),
                    probabilities |-> probabilities]
           ELSE [out |-> Returned(Nothing), probabilities |-> probabilities]


\* --------------------------------------------- _suggest_similar_texts
\* " ".join(e for e in parts if e is not None)
RECURSIVE Join(_)
Join(parts) ==
    IF parts = <<>> THEN <<>>
    ELSE IF Head(parts) = None THEN Join(Tail(parts))
    ELSE LET rest == Join(Tail(parts))
             last == \A k \in DOMAIN Tail(parts) : Tail(parts)[k] = None
         IN IF last THEN Head(parts) ELSE Head(parts) \o <<SP>> \o rest

\* Line 82.
input_text(target) ==
    IF target = Nothing THEN <<>>
    ELSE Join(<<target[1].title, target[1].description>>)

\* The terms TfidfVectorizer.fit learns: every token that is not a separator.
Vocabulary(texts) ==
    { c \in UNION { Range(texts[i]) : i \in DOMAIN texts } : c # SP }

\* Lines 84-91, similarity_matrix[0]: the scores of every corpus row against
\* the query, or against corpus row 0 when there is no query. The values
\* are the library's; rows with equal text score equally, and in the
\* no-query case row 0 scores 1 against its own text.
SimilarityRows(df, query) ==
    LET texts == Column(df, "combined_text")
        byText == { f \in [Range(texts) -> 0..MaxScore] :
                      query = <<>> => f[texts[1]] = MaxScore }
    IN { [i \in DOMAIN texts |-> f[texts[i]]] : f \in byText }

\* np.argsort(a): the indices in ascending order of value. The default sort
\* kind is not stable, so every order of equal values is a possible result.
RECURSIVE argsort(_, _)
argsort(a, S) ==
    IF S = {} THEN { <<>> }
    ELSE LET least == { i \in S : \A j \in S : a[i] <= a[j] }
         IN UNION { { <<i>> \o rest : rest \in argsort(a, S \ {i}) } : i \in least }

\* s[::-1]
Reverse(s) == [i \in DOMAIN s |-> s[Len(s) + 1 - i]]

\* s[:n] for n >= 0
Take(s, n) == SubSeq(s, 1, IF n < Len(s) THEN n ELSE Len(s))

\* Line 93 without the reversal.
TopIdxAscending(order, top_n) == Take(order, top_n)

\* Line 93: np.argsort(similarity_matrix[0])[::-1][:top_n]
TopIdx(order, top_n) == Take(Reverse(order), top_n)

\* Lines 94-96: fresh Task objects from the selected rows.
RowsToTasks(df, idx) ==
    [k \in DOMAIN idx |->
        Task(df.rows[idx[k]].title, df.rows[idx[k]].description,
             df.rows[idx[k]].due_date)]

NotRanked == [budget |-> 0 - 1, pairwise |-> FALSE, similarity |-> <<>>,
              top_n_idx |-> <<>>, out |-> Returned(<<>>)]

\* Lines 82-96. The set of outcomes the call can have: one per score
\* assignment of the library and per order argsort gives equal scores.
\* fit_transform raises ValueError on an empty vocabulary.
_suggest_similar_texts(df, target, top_n) ==
    LET query == input_text(target)
        texts == Column(df, "combined_text")
    IN IF Vocabulary(texts) = {}
       THEN { [budget |-> top_n, pairwise |-> query = <<>>, similarity |-> <<>>,
               top_n_idx |-> <<>>, out |-> Raised("ValueError")] }
       ELSE { [budget |-> top_n, pairwise |-> query = <<>>, similarity |-> sim,
               top_n_idx |-> TopIdx(order, top_n),
               out |-> Returned(RowsToTasks(df, TopIdx(order, top_n)))] :
              <<sim, order>> \in
                 UNION { { <<m, o>> : o \in argsort(m, DOMAIN m) } :
                         m \in SimilarityRows(df, query) } }

\* ----------------------------------------------- suggest_similar_tasks
NotPredicted == [out |-> Returned(Nothing), probabilities |-> NoProbabilities]

\* list.insert(0, x)
Insert0(list, x) == <<x>> \o list

\* Lines 40-49 with `top_n > 0` in place of `top_n - 1 > 0`.
Orchestrate_budget_slip(df, target, top_n) ==
    LET predictor == _searching_for_sequences(df)
        found_sequence == predictor.out.value
    IN IF predictor.out.kind = "raised"
       THEN { [predictor |-> predictor, ranker |-> NotRanked, out |-> predictor.out] }
       ELSE IF found_sequence = Nothing
       THEN { [predictor |-> predictor, ranker |-> r, out |-> r.out] :
              r \in _suggest_similar_texts(df, target, top_n) }
       ELSE IF top_n > 0
       THEN { [predictor |-> predictor, ranker |-> r,
               out |-> IF r.out.kind = "raised" THEN r.out
                       ELSE Returned(Insert0(r.out.value, found_sequence[1]))] :
              r \in _suggest_similar_texts(df, target, top_n) }
       ELSE { [predictor |-> predictor, ranker |-> NotRanked,
               out |-> Returned(<<found_sequence[1]>>)] }

\* Lines 40-49, on the frame lines 37-38 have extended. An exception of a
\* callee propagates to the caller.
Orchestrate(df, target, top_n) ==
    LET predictor == _searching_for_sequences(df)
        found_sequence == predictor.out.value
    IN IF predictor.out.kind = "raised"
       THEN { [predictor |-> predictor, ranker |-> NotRanked, out |-> predictor.out] }
       ELSE IF found_sequence = Nothing
       THEN { [predictor |-> predictor, ranker |-> r, out |-> r.out] :
              r \in _suggest_similar_texts(df, target, top_n) }
       ELSE IF top_n - 1 > 0
       THEN { [predictor |-> predictor, ranker |-> r,
               out |-> IF r.out.kind = "raised" THEN r.out
                       ELSE Returned(Insert0(r.out.value, found_sequence[1]))] :
              r \in _suggest_similar_texts(df, target, top_n - 1) }
       ELSE { [predictor |-> predictor, ranker |-> NotRanked,
               out |-> Returned(<<found_sequence[1]>>)] }

\* ------------------------------------------- server.py, compute_similarity
\* A dict is the sequence of its <<key, value>> items in insertion order.
Keys(d) == { d[k][1] : k \in DOMAIN d }
Get(d, key) == LET k == CHOOSE k \in DOMAIN d : d[k][1] = key IN d[k][2]

\* d[key] = value: a new key goes last, a known key keeps its place.
DictSet(d, key, value) ==
    IF key \in Keys(d)
    THEN [k \in DOMAIN d |-> IF d[k][1] = key THEN <<key, value>> ELSE d[k]]
    ELSE Append(d, <<key, value>>)

\* f'{task.title} {task.description or ""}'
task_text(task) ==
    task.title \o <<SP>> \o
    (IF task.description = None \/ task.description = <<>> THEN <<>>
     ELSE task.description)

\* cosine_similarity(tfidf_matrix): symmetric, 1 between equal texts, any
\* value of the scale otherwise.
SimilarityMatrices(texts) ==
    LET T == Range(texts)
        pairs == { {x, y} : x \in T, y \in T } \ { {x} : x \in T }
    IN { [i \in DOMAIN texts |-> [j \in DOMAIN texts |->
            IF texts[i] = texts[j] THEN MaxScore ELSE f[{texts[i], texts[j]}]]] :
         f \in [pairs -> 0..MaxScore] }

\* Lines 140-144: the double loop, rows outermost, writing
\* task_similarity[task.title][other_task.title] for i != j.
RECURSIVE SimilarityLoop(_, _, _, _, _)
SimilarityLoop(tasks, matrix, i, j, task_similarity) ==
    IF i > Len(tasks) THEN task_similarity
    ELSE IF j > Len(tasks) THEN SimilarityLoop(tasks, matrix, i + 1, 1, task_similarity)
    ELSE IF i = j THEN SimilarityLoop(tasks, matrix, i, j + 1, task_similarity)
    ELSE LET title == tasks[i].title
             inner == IF title \in Keys(task_similarity)
                      THEN Get(task_similarity, title) ELSE <<>>
         IN SimilarityLoop(tasks, matrix, i, j + 1,
                DictSet(task_similarity, title,
                        DictSet(inner, tasks[j].title, matrix[i][j])))

\* Lines 134-146: the mappings the call can return, one per matrix of the
\* library; fit_transform raises ValueError on an empty vocabulary.
compute_similarity(tasks) ==
    LET task_texts == [i \in DOMAIN tasks |-> task_text(tasks[i])]
    IN IF Vocabulary(task_texts) = {}
       THEN { Raised("ValueError") }
       ELSE { Returned(SimilarityLoop(tasks, matrix, 1, 1, <<>>)) :
              matrix \in SimilarityMatrices(task_texts) }

\* ------------------------- server.py, generate_title_description_suggestions
\* `if task_title`: None and "" are falsy.
Truthy(task_title) == task_title # None /\ task_title # <<>>

\* score > 0.5 on the scale 0..MaxScore
AboveHalf(score) == 2 * score > MaxScore

\* sorted(items, key=score, reverse=True): descending, equal scores in
\* their original order (Python's sort is stable, also under reverse).
RECURSIVE SortedByScoreDesc(_)
SortedByScoreDesc(items) ==
    IF items = <<>> THEN <<>>
    ELSE LET k == CHOOSE k \in DOMAIN items :
                    /\ \A j \in DOMAIN items : items[j][2] <= items[k][2]
                    /\ \A j \in 1..(k - 1) : items[j][2] < items[k][2]
         IN <<items[k]>> \o
            SortedByScoreDesc([j \in 1..(Len(items) - 1) |->
                                 IF j < k THEN items[j] ELSE items[j + 1]])

\* f"{title} Follow-up"
FollowUp(title) == title \o <<" Follow-up">>

\* suggestions[key].append(x) on a defaultdict(list)
AppendTo(suggestions, key, x) ==
    DictSet(suggestions, key,
            (IF key \in Keys(suggestions) THEN Get(suggestions, key) ELSE <<>>) \o <<x>>)

\* Lines 156-163: the inner loop over one title's sorted similarities.
\* Yields the suggestions, the remaining limit and whether it returned.
RECURSIVE InnerLoop(_, _, _, _)
InnerLoop(title, sorted_similarities, limit, suggestions) ==
    IF sorted_similarities = <<>>
    THEN [suggestions |-> suggestions, limit |-> limit, returned |-> FALSE]
    ELSE LET similar_title == Head(sorted_similarities)[1]
             score == Head(sorted_similarities)[2]
         IN IF AboveHalf(score)
            THEN LET appended == AppendTo(suggestions, FollowUp(title), similar_title)
                 IN IF limit > 0
                    THEN InnerLoop(title, Tail(sorted_similarities), limit - 1, appended)
                    ELSE [suggestions |-> appended, limit |-> limit, returned |-> TRUE]
            ELSE InnerLoop(title, Tail(sorted_similarities), limit, suggestions)

\* Lines 152-165: the outer loop over similarity_matrix.items().
RECURSIVE OuterLoop(_, _, _, _)
OuterLoop(items, task_title, limit, suggestions) ==
    IF items = <<>> THEN suggestions
    ELSE LET title == Head(items)[1]
             similarities == Head(items)[2]
         IN IF Truthy(task_title) /\ title # task_title
            THEN OuterLoop(Tail(items), task_title, limit, suggestions)
            ELSE LET r == InnerLoop(title, SortedByScoreDesc(similarities), limit,
                                    suggestions)
                 IN IF r.returned THEN r.suggestions
                    ELSE OuterLoop(Tail(items), task_title, r.limit, r.suggestions)

\* Lines 149-165.
generate_title_description_suggestions(similarity_matrix, task_title, limit) ==
    OuterLoop(similarity_matrix, task_title, limit, <<>>)

\* ------------------------------------------------------------ the machine
VARIABLES
    tasks_df,      \* the caller's DataFrame
    caller_df,     \* the frame as the caller built it (never written)
    target,        \* the caller's target, Nothing for None
    top_n,         \* the requested budget
    pc,            \* "ready" before the call, "done" after it
    call,          \* the function the caller invoked
    result,        \* what the call returned or raised
    predictor,     \* the run of _searching_for_sequences inside the call
    ranker,        \* the run of _suggest_similar_texts inside the call
    tasks,         \* server.py: the Task rows the endpoint read
    task_title,    \* server.py: the request's task_title, None when absent
    limit,         \* server.py: the request's limit
    task_similarity \* server.py: what compute_similarity returned

engine == <<tasks_df, caller_df, target, top_n, predictor, ranker>>
server == <<tasks, task_title, limit, task_similarity>>
vars == <<engine, server, pc, call, result>>

TaskTitles == { None, <<>>, <<"a">>, <<"b">> }

Init ==
    /\ \E rows \in Corpora : tasks_df = DataFrame(rows) /\ caller_df = DataFrame(rows)
    /\ target \in TargetPool
    /\ top_n \in 0..MaxTopN
    /\ pc = "ready"
    /\ call = "none"
    /\ result = Returned(<<>>)
    /\ predictor = NotPredicted
    /\ ranker = NotRanked
    /\ tasks = <<>>
    /\ task_title = None
    /\ limit = 0
    /\ task_similarity = <<>>

\* suggest_similar_tasks(tasks_df, target, top_n), lines 37-49.
suggest_similar_tasks ==
    /\ pc = "ready"
    /\ LET df == WithDerivedColumns(tasks_df)
       IN /\ tasks_df' = df
          /\ \E o \in Orchestrate(df, target, top_n) :
                /\ result' = o.out
                /\ predictor' = o.predictor
                /\ ranker' = o.ranker
    /\ pc' = "done"
    /\ call' = "suggest_similar_tasks"
    /\ UNCHANGED <<caller_df, target, top_n, server>>

\* _searching_for_sequences called on its own, on such a copy.
CallSearchingForSequences ==
    /\ pc = "ready"
    /\ LET p == _searching_for_sequences(WithDerivedColumns(tasks_df))
       IN /\ predictor' = p
          /\ result' = p.out
    /\ pc' = "done"
    /\ call' = "_searching_for_sequences"
    /\ UNCHANGED <<tasks_df, caller_df, target, top_n, ranker, server>>

Next ==
    \/ suggest_similar_tasks
    \/ CallSearchingForSequences

Spec == Init /\ [][Next]_vars

\* ------------------------------------------------ the server's endpoint
ServerInit ==
    /\ tasks \in Corpora
    /\ task_title \in TaskTitles
    /\ limit \in 0..MaxTopN
    /\ task_similarity = <<>>
    /\ tasks_df = DataFrame(<<>>)
    /\ caller_df = DataFrame(<<>>)
    /\ target = Nothing
    /\ top_n = 0
    /\ pc = "ready"
    /\ call = "none"
    /\ result = Returned(<<>>)
    /\ predictor = NotPredicted
    /\ ranker = NotRanked

\* suggest_tasks with mode == "frequency", lines 121-122.
suggest_tasks ==
    /\ pc = "ready"
    /\ \E s \in compute_similarity(tasks) :
          IF s.kind = "raised"
          THEN /\ task_similarity' = <<>>
               /\ result' = s
          ELSE /\ task_similarity' = s.value
               /\ result' = Returned(generate_title_description_suggestions(
                                         s.value, task_title, limit))
    /\ pc' = "done"
    /\ call' = "suggest_tasks"
    /\ UNCHANGED <<engine, tasks, task_title, limit>>

ServerNext == suggest_tasks

ServerSpec == ServerInit /\ [][ServerNext]_vars

\* ------------------------------------------------------------ the claims
\* The history as the caller supplied it: the combined text of each row.
History == [i \in DOMAIN caller_df.rows |-> combined_text(caller_df.rows[i])]
LastText == History[Len(History)]

\* Adjacent pairs (text[i], text[i+1]) of the history.
Pairs(x, s) ==
    LET h == History
    IN Cardinality({ i \in 1..(Len(h) - 1) : h[i] = x /\ h[i + 1] = s })
PairsFrom(x) ==
    LET h == History
    IN Cardinality({ i \in 1..(Len(h) - 1) : h[i] = x })

OrchestratorDone == pc = "done" /\ call = "suggest_similar_tasks"
PredictorDone ==
    pc = "done" /\ call \in {"suggest_similar_tasks", "_searching_for_sequences"}
RankerReturned ==
    pc = "done" /\ ranker.budget >= 0 /\ ranker.out.kind = "returned"
Predicted == predictor.out.kind = "returned" /\ predictor.out.value # Nothing

\* C1: for a corpus without rows suggest_similar_tasks returns the empty
\* list, for every target and every top_n, and raises nothing.
C1_EmptyCorpusReturnsEmptyList ==
    (OrchestratorDone /\ caller_df.rows = <<>>) => result = Returned(<<>>)

\* C2: the list suggest_similar_tasks returns is never longer than top_n;
\* with top_n = 0 it is empty, also when the predictor has a prediction.
C2_LengthAtMostTopN ==
    (OrchestratorDone /\ result.kind = "returned") => Len(result.value) <= top_n

\* C3 as stated: the last row adds no outgoing transition, so a prediction
\* is emitted exactly when some successor s of the last text x has
\* (pairs (x, s)) / (pairs with source x) >= 1/2.
C3_LastRowAddsNoTransition ==
    (PredictorDone /\ History # <<>>) =>
        (Predicted <=>
            \E s \in Range(History) :
                PairsFrom(LastText) > 0 /\ 2 * Pairs(LastText, s) >= PairsFrom(LastText))

\* C3 as amended: the last row adds one transition to the missing-successor
\* marker, so the probability of successor s after the last text x is
\* (pairs (x, s)) / (pairs with source x + 1), the marker itself has
\* probability 1 / (pairs with source x + 1), and a prediction is emitted
\* exactly when some successor's probability is >= 1/2 (1/2 is accepted).
C3_LastRowCountsAsTransition ==
    (PredictorDone /\ caller_df.rows # <<>>) =>
        LET x == LastText
            total == PairsFrom(x) + 1
            successors == Range(History)
        IN /\ NaN \in DOMAIN predictor.probabilities
           /\ \A s \in DOMAIN predictor.probabilities :
                 predictor.probabilities[s] =
                     << IF s = NaN THEN 1 ELSE Pairs(x, s), total >>
           /\ \A s \in successors :
                 Pairs(x, s) > 0 => s \in DOMAIN predictor.probabilities
           /\ Predicted <=> \E s \in successors : 2 * Pairs(x, s) >= total

\* C3 witness: a prediction emitted at a probability of exactly 1/2.
C3_Witness ==
    /\ PredictorDone /\ History # <<>> /\ Predicted
    /\ \A s \in Range(History) : 2 * Pairs(LastText, s) <= PairsFrom(LastText) + 1
    /\ Len(History) >= 3

\* C4 as stated: _suggest_similar_texts returns the rows by descending
\* score, rows of equal score in corpus order (smaller index first).
C4_TiesInCorpusOrder ==
    RankerReturned =>
        \A k, l \in DOMAIN ranker.top_n_idx :
            k < l =>
                \/ ranker.similarity[ranker.top_n_idx[k]] >
                       ranker.similarity[ranker.top_n_idx[l]]
                \/ /\ ranker.similarity[ranker.top_n_idx[k]] =
                          ranker.similarity[ranker.top_n_idx[l]]
                   /\ ranker.top_n_idx[k] < ranker.top_n_idx[l]

\* C4 as amended: the returned rows are in descending order of score and
\* are the top_n cut of the whole corpus in that order (min(top_n, N)
\* distinct rows, none scoring below a row left out); the order of rows of
\* equal score is not fixed.
C4_DescendingTopCut ==
    RankerReturned =>
        LET idx == ranker.top_n_idx
            sim == ranker.similarity
            N == Len(tasks_df.rows)
        IN /\ Len(idx) = (IF ranker.budget < N THEN ranker.budget ELSE N)
           /\ \A k, l \in DOMAIN idx : k < l => idx[k] # idx[l] /\ sim[idx[k]] >= sim[idx[l]]
           /\ \A k \in DOMAIN idx : \A i \in 1..N :
                 i \notin Range(idx) => sim[idx[k]] >= sim[i]
           /\ ranker.out.value =
                 [k \in DOMAIN idx |->
                     Task(caller_df.rows[idx[k]].title, caller_df.rows[idx[k]].description,
                          caller_df.rows[idx[k]].due_date)]

\* C4 witness: two rows returned, the first scoring strictly higher, and a
\* third row left out.
C4_Witness ==
    /\ RankerReturned
    /\ Len(ranker.top_n_idx) = 2
    /\ ranker.similarity[ranker.top_n_idx[1]] > ranker.similarity[ranker.top_n_idx[2]]
    /\ Len(tasks_df.rows) > 2

\* C5: without a query (target None or of empty text) the row whose
\* neighbours are ranked, corpus row 0, is not among its own matches.
C5_SelfExcluded ==
    (RankerReturned /\ ranker.pairwise) => 1 \notin Range(ranker.top_n_idx)

C7_NoPredictionWithoutRecurrence ==
    (PredictorDone /\ caller_df.rows # <<>>) =>
        LET h == History
        IN (\A i \in 1..(Len(h) - 1) : h[i] # h[Len(h)]) =>
              predictor.out = Returned(Nothing)

\* C7 witness: a history of three pairwise distinct texts, no prediction.
C7_Witness ==
    /\ pc = "done" /\ call = "_searching_for_sequences"
    /\ Len(History) = 3 /\ Cardinality(Range(History)) = 3
    /\ predictor.out = Returned(Nothing)

\* C8: suggest_similar_tasks leaves the caller's frame as it was: the same
\* rows in the same order, with the same fields and the same values.
C8_InputUnchanged ==
    OrchestratorDone => tasks_df = caller_df

\* The number of similar titles in a suggestions dict, over all its keys.
RECURSIVE TotalAppended(_)
TotalAppended(suggestions) ==
    IF suggestions = <<>> THEN 0
    ELSE Len(Head(suggestions)[2]) + TotalAppended(Tail(suggestions))

\* C9: generate_title_description_suggestions appends at most `limit`
\* similar titles in all, summed over every "<title> Follow-up" key (so
\* limit = 0 yields no suggestion).
C9_AtMostLimitAppended ==
    (pc = "done" /\ call = "suggest_tasks" /\ result.kind = "returned") =>
        TotalAppended(result.value) <= limit

\* C10: a task _searching_for_sequences returns is grounded in the history:
\* its combined text follows the last text somewhere in the history, and
\* its title, description and due_date are those of the first row carrying
\* that text; the missing-successor marker is never the prediction.
C10_PredictionGrounded ==
    (PredictorDone /\ Predicted) =>
        LET h == History
        IN \E i \in 1..(Len(h) - 1) :
              /\ h[i] = h[Len(h)]
              /\ h[i + 1] # NaN
              /\ \E j \in DOMAIN h :
                    /\ h[j] = h[i + 1]
                    /\ \A k \in 1..(j - 1) : h[k] # h[i + 1]
                    /\ predictor.out.value =
                          Some(Task(caller_df.rows[j].title,
                                    caller_df.rows[j].description,
                                    caller_df.rows[j].due_date))

\* C10 witness: the predicted text is carried by two rows that differ, and
\* the prediction is the earlier of them.
C10_Witness ==
    /\ PredictorDone /\ Predicted
    /\ \E j, h \in DOMAIN History :
          /\ j < h
          /\ History[j] = History[h]
          /\ caller_df.rows[j] # caller_df.rows[h]
          /\ predictor.out.value =
                Some(Task(caller_df.rows[j].title, caller_df.rows[j].description,
                          caller_df.rows[j].due_date))

=============================================================================
